---------------------------- MODULE Spec2Model ----------------------------
(***************************************************************************)
(* Model of Assignment3/matmul.py (multiply, matrix_multiply) and of the   *)
(* index assignment / equation builder of the spice simulator's Circuit.   *)
(*                                                                         *)
(* Python values are modelled as tagged records:                           *)
(*   Num(v)   an int/float/complex number (isinstance(x, Numeric) holds)   *)
(*   Obj      an object that is neither numeric nor iterable (e.g. None)   *)
(*   List(s)  a list, the only kind of value with __iter__ and len()       *)
(***************************************************************************)
EXTENDS Integers, Sequences, FiniteSets, TLC

VARIABLES row1, row2, ret,               \* multiply: arguments and return value
          matrix1, matrix2, outcome,     \* matrix_multiply: arguments and outcome
          calls,                         \* calls made so far
          elements, node_index, branch_index, aug, stage   \* Circuit

rowVars == <<row1, row2, ret>>

matVars == <<matrix1, matrix2, outcome>>

cktVars == <<elements, node_index, branch_index, aug, stage>>

vars == <<row1, row2, ret, matrix1, matrix2, outcome, calls,
          elements, node_index, branch_index, aug, stage>>

-----------------------------------------------------------------------------
(* Bounds of the explored inputs *)

MaxLen == 3

MaxRows == 2

MaxCols == 2

MaxSize == 7

MaxElems == 2

Nums == {0, 1, 2}

-----------------------------------------------------------------------------
(* Python value model *)

Num(v) == [tag |-> "num", val |-> v, items |-> <<>>]

Obj == [tag |-> "obj", val |-> 0, items |-> <<>>]

List(s) == [tag |-> "list", val |-> 0, items |-> s]

len(x) == Len(x.items)

Min(a, b) == IF a <= b THEN a ELSE b

SeqsUpTo(S, n) == UNION {[1..k -> S] : k \in 0..n}

SeqsFromTo(S, lo, hi) == UNION {[1..k -> S] : k \in lo..hi}

-----------------------------------------------------------------------------
(* multiply(row1, row2): return sum(i * j for i, j in zip(row1, row2)) *)

zip_longest(a, b) ==
    [t \in 1..(IF len(a) >= len(b) THEN len(a) ELSE len(b)) |->
        << IF t <= len(a) THEN a.items[t] ELSE Num(1),
           IF t <= len(b) THEN b.items[t] ELSE Num(1) >>]

\* zip stops at the end of the shorter argument
zip(a, b) == [t \in 1..Min(len(a), len(b)) |-> <<a.items[t], b.items[t]>>]

genexpr_add(pairs) == [t \in 1..Len(pairs) |-> pairs[t][1].val + pairs[t][2].val]

\* the generator  (i * j for i, j in pairs)
genexpr(pairs) == [t \in 1..Len(pairs) |-> pairs[t][1].val * pairs[t][2].val]

RECURSIVE sum_from(_, _)
sum_from(s, acc) == IF s = <<>> THEN acc ELSE sum_from(Tail(s), acc + Head(s))

\* sum(iterable): left fold starting from 0
sum(s) == sum_from(s, 0)

multiply(r1, r2) == Num(sum(genexpr(zip(r1, r2))))

-----------------------------------------------------------------------------
(* matrix_multiply(matrix1, matrix2): the validation lambdas.  A lambda     *)
(* evaluates to "pass" (truthy), "fail" (falsy) or to the name of the       *)
(* Python exception its evaluation throws.                                 *)

IsList(x) == x.tag = "list"

\* lambda matrix: hasattr(matrix, "__iter__")
check1(matrix) == IF IsList(matrix) THEN "pass" ELSE "fail"

\* lambda matrix: len(matrix) > 0
check2(matrix) ==
    IF ~IsList(matrix) THEN "TypeError"
    ELSE IF len(matrix) > 0 THEN "pass" ELSE "fail"

\* lambda matrix: all(hasattr(row, "__iter__") for row in matrix)
check3(matrix) ==
    IF ~IsList(matrix) THEN "TypeError"
    ELSE IF \A t \in 1..len(matrix) : IsList(matrix.items[t]) THEN "pass" ELSE "fail"

\* lambda matrix: len(matrix[0]) > 0
check4(matrix) ==
    IF ~IsList(matrix) THEN "TypeError"
    ELSE IF len(matrix) = 0 THEN "IndexError"
    ELSE IF ~IsList(matrix.items[1]) THEN "TypeError"
    ELSE IF len(matrix.items[1]) > 0 THEN "pass" ELSE "fail"

check5_any(matrix) ==
    IF ~IsList(matrix) THEN "TypeError"
    ELSE IF len(matrix) = 0 THEN "fail"
    ELSE IF ~IsList(matrix.items[1]) THEN "TypeError"
    ELSE "pass"

\* lambda matrix: all(len(row) == len(matrix[0]) for row in matrix)
\* all() stops at the first row that is falsy or throws
check5(matrix) ==
    IF ~IsList(matrix) THEN "TypeError"
    ELSE LET bad == {t \in 1..len(matrix) :
                        \/ ~IsList(matrix.items[t])
                        \/ len(matrix.items[t]) # len(matrix.items[1])}
         IN  IF bad = {} THEN "pass"
             ELSE LET t == CHOOSE u \in bad : \A w \in bad : u <= w
                  IN  IF ~IsList(matrix.items[t]) THEN "TypeError" ELSE "fail"

\* lambda matrix: all(all(isinstance(i, get_args(Numeric)) for i in row)
\*                    for row in matrix)
check6(matrix) ==
    IF ~IsList(matrix) THEN "TypeError"
    ELSE LET bad == {t \in 1..len(matrix) :
                        \/ ~IsList(matrix.items[t])
                        \/ \E u \in 1..len(matrix.items[t]) :
                              matrix.items[t].items[u].tag # "num"}
         IN  IF bad = {} THEN "pass"
             ELSE LET t == CHOOSE u \in bad : \A w \in bad : u <= w
                  IN  IF ~IsList(matrix.items[t]) THEN "TypeError" ELSE "fail"

check(id, matrix) ==
    CASE id = 1 -> check1(matrix)
      [] id = 2 -> check2(matrix)
      [] id = 3 -> check3(matrix)
      [] id = 4 -> check4(matrix)
      [] id = 5 -> check5(matrix)
      [] id = 6 -> check6(matrix)

Entry(id, error, message) == [id |-> id, error |-> error, message |-> message]

checks_len_before_col ==
    << Entry(1, "ValueError", "Must have atleast 1 dim"),
       Entry(2, "ValueError", "Must have atleast 1 row"),
       Entry(3, "ValueError", "Must have atleast 2 dims"),
       Entry(5, "ValueError", "Rows must have same len"),
       Entry(4, "ValueError", "Must have atleast 1 col"),
       Entry(6, "TypeError", "Must contain only numeric data") >>

\* checks = [(lambda, error, message), ...] in source order
checks ==
    << Entry(1, "ValueError", "Must have atleast 1 dim"),
       Entry(2, "ValueError", "Must have atleast 1 row"),
       Entry(3, "ValueError", "Must have atleast 2 dims"),
       Entry(4, "ValueError", "Must have atleast 1 col"),
       Entry(5, "ValueError", "Rows must have same len"),
       Entry(6, "TypeError", "Must contain only numeric data") >>

Raise(error, message) == [error |-> error, message |-> message]

NoRaise == Raise("", "")

check_pair_first_only(c, m1, m2) ==
    LET r1 == check(c.id, m1)
    IN  IF r1 = "pass" THEN NoRaise
        ELSE IF r1 = "fail" THEN Raise(c.error, c.message)
        ELSE Raise(r1, "")

\* if not (check(matrix1) and check(matrix2)): raise error(message)
check_pair(c, m1, m2) ==
    LET r1 == check(c.id, m1)
    IN  IF r1 = "fail" THEN Raise(c.error, c.message)
        ELSE IF r1 # "pass" THEN Raise(r1, "")
        ELSE LET r2 == check(c.id, m2)
             IN  IF r2 = "fail" THEN Raise(c.error, c.message)
                 ELSE IF r2 # "pass" THEN Raise(r2, "")
                 ELSE NoRaise

RECURSIVE check_loop(_, _, _)
\* for check, error, message in checks: ...
check_loop(cs, m1, m2) ==
    IF cs = <<>> THEN NoRaise
    ELSE LET r == check_pair(Head(cs), m1, m2)
         IN  IF r # NoRaise THEN r ELSE check_loop(Tail(cs), m1, m2)

-----------------------------------------------------------------------------
(* matrix_multiply: the body after validation.  The call works on a frame  *)
(* of its locals; matrix1 and matrix2 are the caller's list objects.       *)

\* the exception, if any, thrown by  len(matrix1) != len(matrix2[0])
dimension_test_exc(m1, m2) ==
    IF ~IsList(m1) THEN "TypeError"
    ELSE IF ~IsList(m2) THEN "TypeError"
    ELSE IF len(m2) = 0 THEN "IndexError"
    ELSE IF ~IsList(m2.items[1]) THEN "TypeError"
    ELSE ""

\* len(matrix1) != len(matrix2[0])
dimension_mismatch(m1, m2) == len(m1) # len(m2.items[1])

\* the exception, if any, thrown by the transposing comprehension:
\* row[i] fails on a row that is no list or is shorter than matrix2[0]
transpose_exc(m2) ==
    LET ncols == len(m2.items[1])
        bad0  == {t \in 1..len(m2) : ~IsList(m2.items[t]) \/ len(m2.items[t]) = 0}
    IN  IF ncols = 0 THEN ""
        ELSE IF bad0 # {}
             THEN LET t == CHOOSE u \in bad0 : \A w \in bad0 : u <= w
                  IN  IF ~IsList(m2.items[t]) THEN "TypeError" ELSE "IndexError"
        ELSE IF \E t \in 1..len(m2) : len(m2.items[t]) < ncols THEN "IndexError"
        ELSE ""

\* matrix2_transpose = [[row[i] for row in matrix2] for i in range(len(matrix2[0]))]
transpose(m2) ==
    List([i \in 1..len(m2.items[1]) |->
            List([t \in 1..len(m2) |-> m2.items[t].items[i]])])

\* resultant_matrix = [[0] * len(matrix2_transpose) for j in range(len(matrix1))]
zeros(m1, m2t) ==
    List([j \in 1..len(m1) |-> List([u \in 1..len(m2t) |-> Num(0)])])

\* the exception, if any, thrown by multiply(row1, row2)
multiply_exc(r1, r2) ==
    IF ~IsList(r1) \/ ~IsList(r2) THEN "TypeError"
    ELSE IF \E t \in 1..Min(len(r1), len(r2)) :
                r1.items[t].tag # "num" \/ r2.items[t].tag # "num"
         THEN "TypeError"
    ELSE ""

store_into_matrix1(f, i, j, v) ==
    IF IsList(f.matrix1.items[i]) /\ j <= len(f.matrix1.items[i])
    THEN [f EXCEPT !.matrix1.items[i].items[j] = v,
                   !.resultant_matrix.items[i].items[j] = v]
    ELSE [f EXCEPT !.resultant_matrix.items[i].items[j] = v]

\* resultant_matrix[i][j] = v
store(f, i, j, v) == [f EXCEPT !.resultant_matrix.items[i].items[j] = v]

RECURSIVE fill(_, _, _, _, _)
\* for i in range(len(matrix1)):
\*     for j in range(len(matrix2_transpose)):
\*         resultant_matrix[i][j] = multiply(matrix1[i], matrix2_transpose[j])
\* f.dots counts the calls of multiply
fill(f, n, m, i, j) ==
    IF i > n THEN f
    ELSE IF j > m THEN fill(f, n, m, i + 1, 1)
    ELSE LET a == f.matrix1.items[i]
             b == f.matrix2_transpose.items[j]
             g == [f EXCEPT !.dots = @ + 1]
         IN  IF multiply_exc(a, b) # ""
             THEN [g EXCEPT !.exc = multiply_exc(a, b)]
             ELSE fill(store(g, i, j, multiply(a, b)), n, m, i, j + 1)

Frame(m1, m2, m2t, res) ==
    [matrix1 |-> m1, matrix2 |-> m2, matrix2_transpose |-> m2t,
     resultant_matrix |-> res, dots |-> 0, exc |-> ""]

Raised(error, message, f) ==
    [kind |-> "raise", error |-> error, message |-> message,
     value |-> List(<<>>), dots |-> f.dots,
     matrix1 |-> f.matrix1, matrix2 |-> f.matrix2]

Returned(f) ==
    [kind |-> "return", error |-> "", message |-> "",
     value |-> f.resultant_matrix, dots |-> f.dots,
     matrix1 |-> f.matrix1, matrix2 |-> f.matrix2]

\* matrix_multiply(matrix1, matrix2): the outcome of one call, with the
\* contents of the two argument objects when the call ends
matrix_multiply(m1, m2) ==
    LET f0 == Frame(m1, m2, List(<<>>), List(<<>>))
        r  == check_loop(checks, m1, m2)
    IN  IF r # NoRaise THEN Raised(r.error, r.message, f0)
        ELSE IF dimension_test_exc(m1, m2) # ""
             THEN Raised(dimension_test_exc(m1, m2), "", f0)
        ELSE IF dimension_mismatch(m1, m2)
             THEN Raised("ValueError", "Matrices cannot be multiplied", f0)
        ELSE IF transpose_exc(m2) # "" THEN Raised(transpose_exc(m2), "", f0)
        ELSE LET m2t == transpose(m2)
                 f1  == Frame(m1, m2, m2t, zeros(m1, m2t))
                 f2  == fill(f1, len(m1), len(m2t), 1, 1)
             IN  IF f2.exc # "" THEN Raised(f2.exc, "", f2) ELSE Returned(f2)

-----------------------------------------------------------------------------
(* Specification of the row-multiply primitive *)

RowInputs == {List(s) : s \in SeqsUpTo({Num(v) : v \in Nums}, MaxLen)}

NoMatrix == List(<<>>)

NoCircuit ==
    /\ elements = <<>>
    /\ node_index = {}
    /\ branch_index = {}
    /\ aug = <<>>
    /\ stage = "none"

NoOutcome == [kind |-> "none", error |-> "", message |-> "", value |-> List(<<>>), dots |-> 0]

InitRow ==
    /\ row1 \in RowInputs
    /\ row2 \in RowInputs
    /\ ret = Num(0)
    /\ matrix1 = NoMatrix
    /\ matrix2 = NoMatrix
    /\ outcome = NoOutcome
    /\ calls = 0
    /\ NoCircuit

MultiplyCall ==
    /\ calls = 0
    /\ ret' = multiply(row1, row2)
    /\ calls' = 1
    /\ UNCHANGED <<row1, row2, matVars, cktVars>>

NextRow == MultiplyCall

SpecRow == InitRow /\ [][NextRow]_vars

-----------------------------------------------------------------------------
(* Specifications of matrix_multiply *)

\* Arguments of every shape, well-formed or not.  A row is a non-iterable
\* number or a list of numbers and non-numeric objects; a matrix is a
\* non-iterable number or a list of rows.  The size of an argument counts
\* its rows and their entries; the two arguments together have at most
\* MaxSize.
CheckElems == {Num(2), Obj}

RowsOfSize(c) ==
    (IF c = 1 THEN {Num(2)} ELSE {}) \cup {List(s) : s \in [1..(c - 1) -> CheckElems]}

RECURSIVE RowSeqsOfSize(_)
RowSeqsOfSize(n) ==
    IF n = 0 THEN {<<>>}
    ELSE UNION {{<<r>> \o t : r \in RowsOfSize(c), t \in RowSeqsOfSize(n - c)} : c \in 1..n}

MatricesOfSize(n) ==
    (IF n = 1 THEN {Num(2)} ELSE {}) \cup {List(s) : s \in RowSeqsOfSize(n)}

\* the n x k lists of numbers, 1 <= n <= rows, 1 <= k <= cols
NumRows(k) == {List(s) : s \in [1..k -> {Num(v) : v \in Nums}]}

NumMatrices(rows, cols) ==
    UNION {{List(s) : s \in SeqsFromTo(NumRows(k), 1, rows)} : k \in 1..cols}

Fresh ==
    /\ outcome = NoOutcome
    /\ calls = 0
    /\ row1 = List(<<>>)
    /\ row2 = List(<<>>)
    /\ ret = Num(0)
    /\ NoCircuit

InitCheck ==
    /\ \E a \in 0..MaxSize : \E b \in 0..(MaxSize - a) :
          /\ matrix1 \in MatricesOfSize(a)
          /\ matrix2 \in MatricesOfSize(b)
    /\ Fresh

InitMat ==
    /\ matrix1 \in NumMatrices(MaxRows, MaxCols)
    /\ matrix2 \in NumMatrices(MaxRows, MaxCols)
    /\ Fresh

\* one call: outcome = matrix_multiply(matrix1, matrix2), or what it raises
Invoke ==
    LET r == matrix_multiply(matrix1, matrix2)
    IN  /\ outcome' = [kind |-> r.kind, error |-> r.error, message |-> r.message,
                       value |-> r.value, dots |-> r.dots]
        /\ matrix1' = r.matrix1
        /\ matrix2' = r.matrix2
        /\ calls' = calls + 1
        /\ UNCHANGED <<rowVars, cktVars>>

\* the first call
Call == calls = 0 /\ Invoke

\* a second call with the same two argument objects
CallAgain == calls = 1 /\ Invoke

NextCall == Call \/ CallAgain

SpecCheck == InitCheck /\ [][NextCall]_vars

SpecMat == InitMat /\ [][NextCall]_vars

-----------------------------------------------------------------------------
(* Circuit: index assignment and the MNA equation builder.                 *)
(* An element is [kind, a, b, value]; its name is its position in the      *)
(* element list.  node_index and branch_index are sets of <<key, index>>.  *)

GND == "GND"

Nodes == {GND, "n1", "n2"}

\* resistances are 1 ohm, so that the conductance 1/R is an integer
Resistances == {1}

SourceValues == {1, 2}

Elements ==
    [kind : {"R"}, a : Nodes, b : Nodes, value : Resistances]
        \cup [kind : {"I", "V"}, a : Nodes, b : Nodes, value : SourceValues]

HasIndex(index, key) == \E p \in index : p[1] = key

IndexOf(index, key) == (CHOOSE p \in index : p[1] = key)[2]

next_index_shared(nodes, sources) == Cardinality(nodes) + Cardinality(sources)

\* the next unused node index; the voltage sources are numbered apart and
\* offset after all the node indices
next_index(nodes, sources) == Cardinality(nodes)

\* a terminal not yet seen and not ground gets the next unused index
see(nodes, sources, x) ==
    IF x = GND \/ HasIndex(nodes, x) THEN nodes
    ELSE nodes \cup {<<x, next_index(nodes, sources)>>}

RECURSIVE walk(_, _, _, _)
\* one pass over the element list, in list order
walk(es, pos, nodes, sources) ==
    IF pos > Len(es) THEN [nodes |-> nodes, sources |-> sources]
    ELSE LET e  == es[pos]
             n1 == see(nodes, sources, e.a)
             n2 == see(n1, sources, e.b)
             s2 == IF e.kind = "V"
                   THEN sources \cup {<<pos, Cardinality(sources)>>}
                   ELSE sources
         IN  walk(es, pos + 1, n2, s2)

assign_indices(es) ==
    LET w == walk(es, 1, {}, {})
    IN  [node_index   |-> w.nodes,
         branch_index |-> {<<p[1], Cardinality(w.nodes) + p[2]>> : p \in w.sources}]

\* the 1-based matrix row/column of a node, 0 for ground
At(nodes, x) == IF x = GND THEN 0 ELSE IndexOf(nodes, x) + 1

\* M[r][c] += v, skipped when r or c belongs to ground
add(M, r, c, v) == IF r = 0 \/ c = 0 THEN M ELSE [M EXCEPT ![r][c] = @ + v]

stamp(M, e, pos, nodes, branches) ==
    LET ia   == At(nodes, e.a)
        ib   == At(nodes, e.b)
        last == Len(M) + 1
    IN  CASE e.kind = "R" ->
                LET g == 1 \div e.value
                IN  add(add(add(add(M, ia, ia, g), ib, ib, g), ia, ib, -g), ib, ia, -g)
          [] e.kind = "I" ->
                add(add(M, ia, last, -e.value), ib, last, e.value)
          [] e.kind = "V" ->
                LET k == IndexOf(branches, pos) + 1
                IN  [add(add(add(add(M, ia, k, 1), ib, k, -1), k, ia, 1), k, ib, -1)
                        EXCEPT ![k][last] = e.value]

RECURSIVE stamp_all(_, _, _, _, _)
stamp_all(M, es, pos, nodes, branches) ==
    IF pos > Len(es) THEN M
    ELSE stamp_all(stamp(M, es[pos], pos, nodes, branches), es, pos + 1, nodes, branches)

\* every non-ground terminal has an index and every voltage source a branch
Indexed(es, nodes, branches) ==
    \A pos \in 1..Len(es) :
        /\ es[pos].a = GND \/ HasIndex(nodes, es[pos].a)
        /\ es[pos].b = GND \/ HasIndex(nodes, es[pos].b)
        /\ es[pos].kind = "V" => HasIndex(branches, pos)

\* the augmented matrix [G | I]: (N + V) rows of N + V + 1 zeros, then the stamps
generate_eqns(es, nodes, branches) ==
    LET size == Cardinality(nodes) + Cardinality(branches)
        zero == [r \in 1..size |-> [c \in 1..(size + 1) |-> 0]]
    IN  stamp_all(zero, es, 1, nodes, branches)

InitCircuit ==
    /\ elements \in SeqsUpTo(Elements, MaxElems)
    /\ node_index = {}
    /\ branch_index = {}
    /\ aug = <<>>
    /\ stage = "parsed"
    /\ row1 = List(<<>>)
    /\ row2 = List(<<>>)
    /\ ret = Num(0)
    /\ matrix1 = NoMatrix
    /\ matrix2 = NoMatrix
    /\ outcome = NoOutcome
    /\ calls = 0

AssignIndices ==
    /\ stage = "parsed"
    /\ LET r == assign_indices(elements)
       IN  /\ node_index' = r.node_index
           /\ branch_index' = r.branch_index
    /\ stage' = "indexed"
    /\ UNCHANGED <<elements, aug, rowVars, matVars, calls>>

GenerateEqns ==
    /\ stage = "indexed"
    /\ IF Indexed(elements, node_index, branch_index)
       THEN /\ aug' = generate_eqns(elements, node_index, branch_index)
            /\ stage' = "built"
       ELSE /\ aug' = aug
            /\ stage' = "failed"
    /\ UNCHANGED <<elements, node_index, branch_index, rowVars, matVars, calls>>

NextCircuit == AssignIndices \/ GenerateEqns

SpecCircuit == InitCircuit /\ [][NextCircuit]_vars

-----------------------------------------------------------------------------
(* Claims about multiply *)

RECURSIVE DotUpTo(_, _, _)
DotUpTo(a, b, n) ==
    IF n = 0 THEN 0 ELSE DotUpTo(a, b, n - 1) + a.items[n].val * b.items[n].val

\* C7: for equal-length numeric rows (length 0 included) multiply returns
\* exactly the sum of row1[i]*row2[i] over all positions, 0 for empty rows.
C7_DotProduct ==
    (calls = 1 /\ len(row1) = len(row2))
        => ret = Num(DotUpTo(row1, row2, len(row1)))

C7_Witness ==
    /\ calls = 1
    /\ len(row1) = len(row2)
    /\ len(row1) >= 2
    /\ ret.val >= 3

\* C10: for rows of unequal length multiply raises nothing and returns the
\* sum of products over the first min(len(row1), len(row2)) positions only.
C10_Truncates ==
    (calls = 1 /\ len(row1) # len(row2))
        => ret = Num(DotUpTo(row1, row2, Min(len(row1), len(row2))))

C10_Witness ==
    /\ calls = 1
    /\ len(row1) = 1
    /\ len(row2) = 3
    /\ row2.items[3].val = 2
    /\ ret.val = 2

-----------------------------------------------------------------------------
(* Claims about matrix_multiply *)

Called == calls >= 1

Rectangular(m) ==
    /\ IsList(m)
    /\ len(m) >= 1
    /\ \A t \in 1..len(m) : IsList(m.items[t])
    /\ len(m.items[1]) >= 1
    /\ \A t \in 1..len(m) : len(m.items[t]) = len(m.items[1])

WellFormed(m) ==
    /\ Rectangular(m)
    /\ \A t \in 1..len(m) : \A u \in 1..len(m.items[t]) : m.items[t].items[u].tag = "num"

NRows(m) == len(m)

NCols(m) == len(m.items[1])

RECURSIVE Inner(_, _, _, _, _)
Inner(a, b, i, j, t) ==
    IF t = 0 THEN 0
    ELSE Inner(a, b, i, j, t - 1) + a.items[i].items[t].val * b.items[t].items[j].val

Product(a, b) ==
    List([i \in 1..NRows(a) |->
            List([j \in 1..NCols(b) |-> Num(Inner(a, b, i, j, NCols(a)))])])

Identity(r) ==
    List([i \in 1..r |-> List([j \in 1..r |-> IF i = j THEN Num(1) ELSE Num(0)])])

Mismatch == "Matrices cannot be multiplied"

\* C1: well-formed matrices whose inner dimensions disagree (columns of
\* matrix1 # rows of matrix2) make the call raise "Matrices cannot be
\* multiplied", with no dot product computed.
C1_InnerMismatchRaises ==
    (Called /\ WellFormed(matrix1) /\ WellFormed(matrix2)
            /\ NCols(matrix1) # NRows(matrix2))
        => (outcome.kind = "raise" /\ outcome.message = Mismatch /\ outcome.dots = 0)

\* C2: an n x k matrix times a k x m matrix (n # m included) returns the
\* n x m matrix of the sums over t of matrix1[i][t] * matrix2[t][j].
C2_ProductOfCompatible ==
    (Called /\ WellFormed(matrix1) /\ WellFormed(matrix2)
            /\ NCols(matrix1) = NRows(matrix2))
        => (outcome.kind = "return" /\ outcome.value = Product(matrix1, matrix2))

\* C3: multiplying an n x k matrix M by the k x k identity on the right, or
\* by the n x n identity on the left, returns M.
C3_IdentityIsNeutral ==
    /\ (Called /\ WellFormed(matrix1) /\ matrix2 = Identity(NCols(matrix1)))
          => (outcome.kind = "return" /\ outcome.value = matrix1)
    /\ (Called /\ WellFormed(matrix2) /\ matrix1 = Identity(NRows(matrix2)))
          => (outcome.kind = "return" /\ outcome.value = matrix2)

\* what each of the six structural checks rejects
Fails(k, m) ==
    CASE k = 1 -> ~IsList(m)
      [] k = 2 -> IsList(m) /\ len(m) = 0
      [] k = 3 -> IsList(m) /\ \E t \in 1..len(m) : ~IsList(m.items[t])
      [] k = 4 -> IsList(m) /\ len(m) >= 1 /\ IsList(m.items[1]) /\ len(m.items[1]) = 0
      [] k = 5 -> IsList(m) /\ len(m) >= 1 /\ IsList(m.items[1])
                    /\ \E t \in 1..len(m) :
                          IsList(m.items[t]) /\ len(m.items[t]) # len(m.items[1])
      [] k = 6 -> IsList(m) /\ \E t \in 1..len(m) :
                        IsList(m.items[t]) /\ \E u \in 1..len(m.items[t]) :
                                                  m.items[t].items[u].tag # "num"

Message(k) ==
    CASE k = 1 -> "Must have atleast 1 dim"
      [] k = 2 -> "Must have atleast 1 row"
      [] k = 3 -> "Must have atleast 2 dims"
      [] k = 4 -> "Must have atleast 1 col"
      [] k = 5 -> "Rows must have same len"
      [] k = 6 -> "Must contain only numeric data"

StructuralMessages == {Message(k) : k \in 1..6}

Failing(ms) == {k \in 1..6 : \E m \in ms : Fails(k, m)}

Lowest(S) == CHOOSE k \in S : \A w \in S : k <= w

\* C4: the six structural checks are applied in the order 1..6; arguments
\* that fail some check raise the message of the lowest-numbered failing
\* check, and "Matrices cannot be multiplied" is raised only when all six
\* have passed.
C4_LowestFailingCheck ==
    Called =>
        LET F == Failing({matrix1, matrix2})
        IN  IF F # {}
            THEN outcome.kind = "raise" /\ outcome.message = Message(Lowest(F))
            ELSE outcome.kind = "return"
                 \/ (outcome.kind = "raise" /\ outcome.message = Mismatch)

C4_Witness ==
    /\ Called
    /\ Fails(5, matrix1)
    /\ Fails(2, matrix2)
    /\ outcome.message = Message(2)

Ragged(m) ==
    /\ IsList(m)
    /\ len(m) >= 1
    /\ \A t \in 1..len(m) : IsList(m.items[t])
    /\ \E t, u \in 1..len(m) : len(m.items[t]) # len(m.items[u])

\* C5 as stated: every ragged matrix1, a first row that is empty included,
\* raises "Rows must have same len" before any dot product.
C5_RaggedAlwaysSameLen ==
    (Called /\ Ragged(matrix1))
        => (outcome.kind = "raise" /\ outcome.message = Message(5) /\ outcome.dots = 0)

PassesUpTo(k, m) == \A c \in 1..k : ~Fails(c, m)

\* C5 amended: a ragged matrix1 whose first row is not empty, with a matrix2
\* that passes the checks 1 to 4, raises "Rows must have same len" before
\* any dot product is computed.
C5_RaggedSameLen ==
    (Called /\ Ragged(matrix1) /\ len(matrix1.items[1]) > 0 /\ PassesUpTo(4, matrix2))
        => (outcome.kind = "raise" /\ outcome.error = "ValueError"
                /\ outcome.message = Message(5) /\ outcome.dots = 0)

C5_Witness ==
    /\ Called
    /\ Ragged(matrix1)
    /\ len(matrix1.items[1]) > 0
    /\ WellFormed(matrix2)
    /\ outcome.message = Message(5)

\* C6 as stated: with a well-formed matrix1, a structural defect of matrix2
\* alone never raises one of the six structural errors.
C6_Matrix2Unchecked ==
    (Called /\ WellFormed(matrix1) /\ ~WellFormed(matrix2))
        => outcome.message \notin StructuralMessages

\* C6 amended: the six checks are applied to matrix2 as well; with a
\* well-formed matrix1, a matrix2 with a structural defect raises the error
\* of the lowest-numbered check that matrix2 fails, and nothing is computed.
C6_Matrix2Checked ==
    (Called /\ WellFormed(matrix1) /\ ~WellFormed(matrix2))
        => (outcome.kind = "raise"
                /\ outcome.message = Message(Lowest(Failing({matrix2})))
                /\ outcome.dots = 0)

C6_Witness ==
    /\ Called
    /\ WellFormed(matrix1)
    /\ Fails(6, matrix2)
    /\ outcome.error = "TypeError"
    /\ outcome.message = Message(6)

\* C8: a call leaves matrix1 and matrix2 (and their rows) as they were,
\* whether it returns or raises, and a second call with the same arguments
\* has the same outcome as the first.
C8_NoMutationDeterministic ==
    [][/\ matrix1' = matrix1
       /\ matrix2' = matrix2
       /\ (calls >= 1 => outcome' = outcome)]_vars

C8_Witness ==
    /\ calls = 2
    /\ outcome.kind = "return"
    /\ outcome.value # matrix1
    /\ outcome.dots >= 1

-----------------------------------------------------------------------------
(* Claims about the Circuit *)

Terminals == [t \in 1..(2 * Len(elements)) |->
                IF t % 2 = 1 THEN elements[(t + 1) \div 2].a ELSE elements[t \div 2].b]

NonGround == {Terminals[t] : t \in 1..Len(Terminals)} \ {GND}

FirstSeen(x) == CHOOSE t \in 1..Len(Terminals) :
                    Terminals[t] = x /\ \A u \in 1..(t - 1) : Terminals[u] # x

VoltagePos == {pos \in 1..Len(elements) : elements[pos].kind = "V"}

\* C9: once the indices are assigned and the equations generated, ground has
\* no index and every other referenced node exactly one; the node indices
\* are 0..N-1 in first-encounter order; the voltage sources have the branch
\* indices N..N+V-1 in list order; the matrix is (N+V) x (N+V+1).
C9_IndexAndShape ==
    stage = "built" =>
        LET N == Cardinality(NonGround)
            V == Cardinality(VoltagePos)
        IN  /\ ~HasIndex(node_index, GND)
            /\ \A x \in NonGround : Cardinality({p \in node_index : p[1] = x}) = 1
            /\ Cardinality(node_index) = N
            /\ {p[2] : p \in node_index} = 0..(N - 1)
            /\ \A p, q \in node_index :
                  (p[1] \in NonGround /\ q[1] \in NonGround
                      /\ FirstSeen(p[1]) < FirstSeen(q[1])) => p[2] < q[2]
            /\ Cardinality(branch_index) = V
            /\ \A pos \in VoltagePos :
                  <<pos, N + Cardinality({q \in VoltagePos : q < pos})>> \in branch_index
            /\ Len(aug) = N + V
            /\ \A r \in 1..Len(aug) : Len(aug[r]) = N + V + 1

C9_Witness ==
    /\ stage = "built"
    /\ Len(elements) = 2
    /\ elements[1].kind = "V"
    /\ elements[1].a = "n2"
    /\ elements[2].kind = "V"
    /\ elements[2].a = "n1"
    /\ Len(aug) = 4

=============================================================================
